---- MODULE Spec2Model ----
(***************************************************************************)
(* Model of src/src/App.tsx (Sam2OnnxSegmenter): the React session state,  *)
(* the asynchronous run() with its nearest-neighbour mask upscale, the     *)
(* overlay drawing, exportPNG and the boundary walk of exportPolygon.      *)
(*                                                                         *)
(* An ImageData is modelled by its width, its height and the alpha byte of *)
(* every pixel (a function on the flat pixel index 0..W*H-1): the colour   *)
(* bytes are constants in every place the code writes them and are never   *)
(* read.                                                                   *)
(***************************************************************************)
EXTENDS Integers, Sequences, FiniteSets, TLC

VARIABLES
    session,     \* useState session: TRUE once InferenceSession.create resolved
    pending,     \* images picked whose onload has not fired yet (set of sizes)
    img,         \* useState img: NULL or [width, height]
    points,      \* useState points: sequence of [x, y, label]
    mask,        \* useState mask: NULL or ImageData
    busy,        \* useState busy
    error,       \* useState error: NONE or a message
    inflight,    \* the session.run(feeds) promises not yet settled, each with
                 \* the W and H its continuation holds
    out,         \* resolved output tensor whose continuation has not run yet
    overlay,     \* the overlay canvas: NULL (not mounted) or ImageData
    download,    \* the file the last handler handed to the browser with
                 \* link.click(), NULL if it handed over none
    alertMsg,    \* the message the last handler showed with alert(), or NONE
    pc,          \* position inside exportPolygon when it is followed stepwise
    sx, sy,      \* exportPolygon: the seed
    x, y, dir,   \* exportPolygon: position and facing, 0=R,1=D,2=L,3=U
    steps,       \* exportPolygon: loop counter
    poly,        \* exportPolygon: the polygon accumulated so far
    visited      \* exportPolygon: flat indices marked in the visited array

vars == <<session, pending, img, points, mask, busy, error, inflight, out,
          overlay, download, alertMsg, pc, sx, sy, x, y, dir,
          steps, poly, visited>>

sessionVars == <<session, pending, img, points, mask, busy, error, inflight, out>>
walkVars == <<pc, sx, sy, x, y, dir, steps, poly, visited>>

\* null for an object-valued state or value, and for a message
NULL == [null |-> TRUE]
NONE == "none"

--------------------------------------------------------------------------
(* Bounds of the model.                                                    *)

\* exportPolygon is followed on every grid of at most this many pixels
MaxCells == 9
\* ... and on every solid rectangle strictly inside a grid of at most this side
MaxRectGrid == 6
\* the upscale is followed for image and mask widths up to this, and heights
\* up to the next
MaxResample == 22
MaxResampleH == 2
\* prompt points kept in a session
MaxPoints == 1
\* session.run calls that may be pending at once (the Run button allows one)
MaxInFlight == 2

--------------------------------------------------------------------------
(* ImageData                                                               *)

Pixels(W, H) == 0 .. (W * H - 1)

\* alpha written by run() for an occupied pixel:
\* Math.max(0, Math.min(255, Math.round(1 * 110)))
MaskAlpha == 110
\* alpha of a pixel covered by an opaque fill or stroke
Opaque == 255

--------------------------------------------------------------------------
(* exportPolygon: the boundary walk                                        *)

\* a variant of isOn that takes alpha 0 for occupied
isOnOrZero(id, i) == i \in DOMAIN id.data /\ id.data[i] >= 0

\* isOn reads the flat buffer with no bounds check on x or y: an index outside
\* the buffer reads undefined, and undefined > 0 is false
isOnFlat(id, i) == i \in DOMAIN id.data /\ id.data[i] > 0

isOn(id, px, py) == isOnFlat(id, py * id.width + px)

\* the seed scan: rows top to bottom, columns left to right; <<-1, -1>> if none
SeedOf(id) ==
    LET on == {i \in Pixels(id.width, id.height) : isOn(id, i % id.width, i \div id.width)}
    IN  IF on = {} THEN <<-1, -1>>
        ELSE LET i == CHOOSE i \in on : \A j \in on : i <= j
             IN  <<i % id.width, i \div id.width>>

\* a variant of the loop bound with one more iteration
BudgetPlusOne(id) == id.width * id.height * 4 + 1

\* for (let steps = 0; steps < W * H * 4; steps++)
Budget(id) == id.width * id.height * 4

\* a variant of right with the offset of left
RightOfPlusOne(d) == (d + 1) % 4

\* const right = (dir + 3) & 3, left = (dir + 1) & 3
RightOf(d) == (d + 3) % 4
LeftOf(d) == (d + 1) % 4

\* move(d)
MoveX(px, d) == IF d = 0 THEN px + 1 ELSE IF d = 2 THEN px - 1 ELSE px
MoveY(py, d) == IF d = 1 THEN py + 1 ELSE IF d = 3 THEN py - 1 ELSE py

\* the probe of the cell next to (px, py) in direction d
Probe(id, px, py, d) == isOn(id, MoveX(px, d), MoveY(py, d))

\* poly.length > 10
MinPoints == 10

\* One iteration of the for loop on the walk state w = [x, y, dir, poly,
\* visited, steps, brk]; brk is set when the iteration ends in break.
LoopBody(id, seed, w) ==
    LET p == Append(w.poly, <<w.x, w.y>>)
        i == w.y * id.width + w.x
        v == IF i \in Pixels(id.width, id.height) THEN w.visited \cup {i} ELSE w.visited
        right == RightOf(w.dir)
        left == LeftOf(w.dir)
        rightIsOn == Probe(id, w.x, w.y, right)
        ahead == Probe(id, w.x, w.y, w.dir)
        nd == IF rightIsOn THEN right ELSE IF ahead THEN w.dir ELSE left
        nx == IF rightIsOn \/ ahead THEN MoveX(w.x, nd) ELSE w.x
        ny == IF rightIsOn \/ ahead THEN MoveY(w.y, nd) ELSE w.y
        b == nx = seed[1] /\ ny = seed[2] /\ Len(p) > MinPoints
    IN  [x |-> nx, y |-> ny, dir |-> nd, poly |-> p, visited |-> v,
         steps |-> IF b THEN w.steps ELSE w.steps + 1, brk |-> b]

\* a variant of the loop that ignores the break
LoopOverNoBreak(id, w) == ~(w.steps < Budget(id))

\* the for loop has ended: by break, or by its condition steps < W * H * 4
LoopOver(id, w) == w.brk \/ ~(w.steps < Budget(id))

WalkStart(seed) ==
    [x |-> seed[1], y |-> seed[2], dir |-> 0, poly |-> <<>>, visited |-> {},
     steps |-> 0, brk |-> FALSE]

RECURSIVE WalkFrom(_, _, _)
WalkFrom(id, seed, w) ==
    IF LoopOver(id, w) THEN w ELSE WalkFrom(id, seed, LoopBody(id, seed, w))

\* the GeoJSON written by exportPolygon: its only variable part is the ring
GeoJSON(ring) == [name |-> "mask.geojson", coordinates |-> ring]

NoMask == "No mask to export"

\* exportPolygon as a function of the overlay: the alert or the file
TraceOf(id) ==
    LET seed == SeedOf(id)
    IN  IF seed[1] = -1 THEN [alert |-> NoMask, file |-> NULL]
        ELSE [alert |-> NONE, file |-> GeoJSON(WalkFrom(id, seed, WalkStart(seed)).poly)]

--------------------------------------------------------------------------
(* IEEE-754 double arithmetic of Math.floor((x / imgW) * MW).              *)
(* A positive double is [sig, scale]: its value is sig / 2^scale.  The     *)
(* significand sig is a natural number of up to Precision bits, held as    *)
(* its digits in base Radix, least significant first, so that no step      *)
(* leaves 32-bit integers.  Operands stay below 2^11, as image and mask    *)
(* sides do.                                                               *)

\* bits of the significand of a double
Precision == 53
\* bits of one digit, and the base 2^13
DigitBits == 13
Radix == 8192

RECURSIVE Pow2(_)
Pow2(k) == IF k = 0 THEN 1 ELSE 2 * Pow2(k - 1)

\* number of bits of a natural number below Radix * Radix
RECURSIVE BitLen(_)
BitLen(n) == IF n = 0 THEN 0 ELSE 1 + BitLen(n \div 2)

\* N + c for a small natural c
RECURSIVE AddSmall(_, _)
AddSmall(N, c) ==
    IF c = 0 THEN N
    ELSE IF N = <<>> THEN <<c>>
    ELSE LET t == N[1] + c
         IN  <<t % Radix>> \o AddSmall(Tail(N), t \div Radix)

\* N * n for a small natural n
RECURSIVE MulSmall(_, _, _)
MulSmall(N, n, carry) ==
    IF N = <<>> THEN (IF carry = 0 THEN <<>> ELSE <<carry>>)
    ELSE LET t == N[1] * n + carry
         IN  <<t % Radix>> \o MulSmall(Tail(N), n, t \div Radix)

\* number of bits of N (its most significant digit is not 0)
Bits(N) == DigitBits * (Len(N) - 1) + BitLen(N[Len(N)])

\* floor(N / 2^s), for a quotient below Radix * Radix
ShiftDown(N, s) ==
    LET j == s \div DigitBits
        hi == IF Len(N) >= j + 2 THEN N[j + 2] ELSE 0
        lo == IF Len(N) >= j + 1 THEN N[j + 1] ELSE 0
    IN  (hi * Radix + lo) \div Pow2(s % DigitBits)

\* the place of the first 1 bit of r / d after the binary point, 0 < r < d
RECURSIVE LeadPlace(_, _)
LeadPlace(r, d) == IF 2 * r >= d THEN 1 ELSE 1 + LeadPlace(2 * r, d)

\* the next n digits of r / d by long division (most significant last in
\* digits, as in a significand), and the remainder left
RECURSIVE LongDiv(_, _, _)
LongDiv(r, d, n) ==
    IF n = 0 THEN [digits |-> <<>>, rem |-> r]
    ELSE LET t == r * Radix
             rest == LongDiv(t % d, d, n - 1)
         IN  [digits |-> Append(rest.digits, t \div d), rem |-> rest.rem]

\* the double a / d for integers 0 < a < d, rounded to nearest, ties to even:
\* the leading 1 bit, then (Precision - 1) / DigitBits = 4 digits
FDiv(a, d) ==
    LET k == LeadPlace(a, d)
        q == LongDiv(2 * a * Pow2(k - 1) - d, d, (Precision - 1) \div DigitBits)
        floorSig == Append(q.digits, 1)
        up == 2 * q.rem > d \/ (2 * q.rem = d /\ floorSig[1] % 2 = 1)
    IN  [sig |-> IF up THEN AddSmall(floorSig, 1) ELSE floorSig,
         scale |-> k + Precision - 1]

\* the double f * n for an integer 0 < n < 2^11, rounded to nearest, ties to
\* even: the exact product, cut to Precision bits
FMul(f, n) ==
    LET p == MulSmall(f.sig, n, 0)
        e == Bits(p) - Precision
    IN  IF e <= 0 THEN [sig |-> p, scale |-> f.scale]
        ELSE LET unit == Pow2(e)
                 low == p[1] % unit
                 odd == (p[1] \div unit) % 2 = 1
                 up == 2 * low > unit \/ (2 * low = unit /\ odd)
                 cut == <<p[1] - low>> \o Tail(p)
             IN  [sig |-> IF up THEN AddSmall(cut, unit) ELSE cut, scale |-> f.scale]

\* Math.floor of a positive double below 2^26
FFloor(f) == ShiftDown(f.sig, f.scale)

\* Math.floor((a / d) * n) for integers 0 <= a < d and n > 0
FloorScaled(a, d, n) == IF a = 0 THEN 0 ELSE FFloor(FMul(FDiv(a, d), n))

--------------------------------------------------------------------------
(* run(): the mask of the output tensor, upscaled to the image            *)

\* the output tensor out[IO_NAMES.masks]: NULL if absent, else [dims, data]
\* with data a function on 0..n-1.  MaskShape is the [MH, MW] the code
\* derives from dims, <<>> where it throws "Unexpected mask shape".
MaskShape(m) ==
    IF Len(m.dims) = 4 THEN <<m.dims[3], m.dims[4]>>
    ELSE IF Len(m.dims) = 3 THEN <<m.dims[2], m.dims[3]>>
    ELSE IF Len(m.dims) = 2 THEN m.dims
    ELSE <<>>

\* v > 0.0, where a read outside the data is undefined and undefined > 0 false
Threshold == 0
Occupied(m, i) == i \in DOMAIN m.data /\ m.data[i] > Threshold

\* the nearest-neighbour upscale of lines 232-250
Resample(m, imgW, imgH) ==
    LET MH == MaskShape(m)[1]
        MW == MaskShape(m)[2]
        srcX == [px \in 0 .. imgW - 1 |-> FloorScaled(px, imgW, MW)]
        srcY == [py \in 0 .. imgH - 1 |-> FloorScaled(py, imgH, MH)]
    IN  [width |-> imgW, height |-> imgH,
         data |-> [i \in Pixels(imgW, imgH) |->
                     IF Occupied(m, srcY[i \div imgW] * MW + srcX[i % imgW])
                     THEN MaskAlpha ELSE 0]]

--------------------------------------------------------------------------
(* draw(): the overlay canvas                                              *)

\* og.arc(p.x, p.y, 5, ...); og.lineWidth = 2
MarkerRadius == 5
MarkerLineWidth == 2

\* The filled and stroked disc of a point covers the pixels whose centre lies
\* within MarkerRadius + MarkerLineWidth / 2 of it (twice the distances are
\* compared, to stay in integers).  The label glyph is drawn 8 pixels to the
\* right of the point: beyond the right edge of every image of this model.
MarkerCovers(p, px, py) ==
    LET ex == 2 * px + 1 - 2 * p.x
        ey == 2 * py + 1 - 2 * p.y
        r2 == 2 * MarkerRadius + MarkerLineWidth
    IN  ex * ex + ey * ey <= r2 * r2

\* The overlay after draw(): sized to the image and cleared, the mask put at
\* (0, 0) (putImageData clips it to the canvas), the markers drawn on top.
Draw(im, mk, pts) ==
    [width |-> im.width, height |-> im.height,
     data |-> [i \in Pixels(im.width, im.height) |->
        LET px == i % im.width
            py == i \div im.width
        IN  IF \E k \in 1 .. Len(pts) : MarkerCovers(pts[k], px, py) THEN Opaque
            ELSE IF mk # NULL /\ px < mk.width /\ py < mk.height
                 THEN mk.data[py * mk.width + px]
            ELSE 0]]

--------------------------------------------------------------------------
(* exportPNG                                                               *)

\* bin: white everywhere, alpha 255 where the overlay's alpha is > 0
PngOf(ov) ==
    [name |-> "mask.png", width |-> ov.width, height |-> ov.height,
     data |-> [i \in Pixels(ov.width, ov.height) |->
                 IF ov.data[i] > 0 THEN Opaque ELSE 0]]

--------------------------------------------------------------------------
(* The session: state after construction                                   *)

Idle ==
    /\ pc = "idle" /\ sx = -1 /\ sy = -1 /\ x = -1 /\ y = -1 /\ dir = 0
    /\ steps = 0 /\ poly = <<>> /\ visited = {}

Init ==
    /\ session = FALSE /\ pending = {} /\ img = NULL /\ points = <<>>
    /\ mask = NULL /\ busy = FALSE /\ error = NONE /\ inflight = <<>>
    /\ out = NULL /\ overlay = NULL /\ download = NULL /\ alertMsg = NONE
    /\ Idle

\* A continuation of run() that is ready (out # NULL) runs before any other
\* event: it is a microtask of the promise that resolved.
Quiet == out = NULL

\* a handler that neither downloads nor alerts
NoOutput == download' = NULL /\ alertMsg' = NONE

--------------------------------------------------------------------------
(* Model loading (useEffect, lines 59-79)                                  *)

LoadFailed == "Failed to load ONNX model. Check path / browser support."

sessionCreated ==
    /\ Quiet /\ ~session /\ error # LoadFailed
    /\ session' = TRUE
    /\ NoOutput
    /\ UNCHANGED <<pending, img, points, mask, busy, error, inflight, out, overlay>>
    /\ UNCHANGED walkVars

sessionFailed ==
    /\ Quiet /\ ~session /\ error # LoadFailed
    /\ error' = LoadFailed
    /\ NoOutput
    /\ UNCHANGED <<session, pending, img, points, mask, busy, inflight, out, overlay>>
    /\ UNCHANGED walkVars

--------------------------------------------------------------------------
(* Image upload (onPick and its im.onload, lines 137-147)                  *)

\* the images a user may pick, by [width, height]
ImageSizes == {[width |-> 2, height |-> 2], [width |-> 7, height |-> 1]}

\* the Dropzone is rendered only while img is null
onPick(im) ==
    /\ Quiet /\ img = NULL /\ im \notin pending
    /\ pending' = pending \cup {im}
    /\ NoOutput
    /\ UNCHANGED <<session, img, points, mask, busy, error, inflight, out, overlay>>
    /\ UNCHANGED walkVars

\* im.onload: setImg, setMask(null), setPoints([]); img changed, so the effect
\* of lines 82-84 runs draw()
imOnload(im) ==
    /\ Quiet /\ im \in pending
    /\ pending' = pending \ {im}
    /\ img' = im
    /\ mask' = NULL
    /\ points' = <<>>
    /\ overlay' = Draw(im, NULL, <<>>)
    /\ NoOutput
    /\ UNCHANGED <<session, busy, error, inflight, out>>
    /\ UNCHANGED walkVars

--------------------------------------------------------------------------
(* Prompt points (lines 149-156, 261-262).  No effect depends on points:   *)
(* the overlay is not redrawn.                                             *)

PromptPoint(px, py, label) == [x |-> px, y |-> py, label |-> label]

\* x = Math.round(fraction * img.width) lies in 0..img.width, y alike
onCanvasClick(px, py, label) ==
    /\ Quiet /\ img # NULL /\ Len(points) < MaxPoints
    /\ px \in 0 .. img.width /\ py \in 0 .. img.height
    /\ points' = Append(points, PromptPoint(px, py, label))
    /\ NoOutput
    /\ UNCHANGED <<session, pending, img, mask, busy, error, inflight, out, overlay>>
    /\ UNCHANGED walkVars

\* both buttons are disabled when points is empty
undoPoint ==
    /\ Quiet /\ points # <<>>
    /\ points' = SubSeq(points, 1, Len(points) - 1)
    /\ NoOutput
    /\ UNCHANGED <<session, pending, img, mask, busy, error, inflight, out, overlay>>
    /\ UNCHANGED walkVars

clearPoints ==
    /\ Quiet /\ points # <<>>
    /\ points' = <<>>
    /\ NoOutput
    /\ UNCHANGED <<session, pending, img, mask, busy, error, inflight, out, overlay>>
    /\ UNCHANGED walkVars

--------------------------------------------------------------------------
(* run (lines 180-259)                                                     *)

\* a variant of the Run button that is not disabled while busy
RunEnabledNoBusy == session /\ img # NULL

\* the Run button: disabled={!session || !img || busy}
RunEnabled == session /\ img # NULL /\ ~busy

\* run() up to its await: the feeds are built from the canvas, which draw()
\* sized to the image; W and H stay in the closure of the continuation
run ==
    /\ Quiet /\ RunEnabled /\ Len(inflight) < MaxInFlight
    /\ busy' = TRUE
    /\ error' = NONE
    /\ inflight' = Append(inflight, [W |-> img.width, H |-> img.height])
    /\ NoOutput
    /\ UNCHANGED <<session, pending, img, points, mask, out, overlay>>
    /\ UNCHANGED walkVars

\* what session.run may settle with: a rejection, or an output record whose
\* masks entry is absent (NULL) or a tensor [dims, data]
Rejected == [rejected |-> TRUE]
Tensor(dims, data) == [dims |-> dims, data |-> data]

RemoveAt(s, i) == SubSeq(s, 1, i - 1) \o SubSeq(s, i + 1, Len(s))

\* the promise of the i-th pending session.run settles with result r
settle(i, r) ==
    /\ Quiet /\ i \in 1 .. Len(inflight)
    /\ out' = [res |-> r, W |-> inflight[i].W, H |-> inflight[i].H]
    /\ inflight' = RemoveAt(inflight, i)
    /\ NoOutput
    /\ UNCHANGED <<session, pending, img, points, mask, busy, error, overlay>>
    /\ UNCHANGED walkVars

\* the message run() reports for a settled result, NONE if it goes through
RunError(r) ==
    IF r = Rejected THEN "inference failed"
    ELSE IF r = NULL THEN "Output mask not found. Check IO_NAMES.masks"
    ELSE IF MaskShape(r) = <<>> THEN "Unexpected mask shape"
    ELSE NONE

\* the rest of run() after the await: catch, or upscale and setMask (the mask
\* changed, so the effect runs draw() with the current image and points);
\* finally setBusy(false)
runContinue ==
    /\ out # NULL
    /\ IF RunError(out.res) # NONE
       THEN /\ error' = RunError(out.res)
            /\ UNCHANGED <<mask, overlay>>
       ELSE /\ mask' = Resample(out.res, out.W, out.H)
            /\ overlay' = Draw(img, mask', points)
            /\ UNCHANGED error
    /\ busy' = FALSE
    /\ out' = NULL
    /\ NoOutput
    /\ UNCHANGED <<session, pending, img, points, inflight>>
    /\ UNCHANGED walkVars

--------------------------------------------------------------------------
(* The exports (lines 264-291, 294-348); both buttons: disabled={!mask}    *)

exportPNG ==
    /\ Quiet /\ mask # NULL
    /\ download' = PngOf(overlay)
    /\ alertMsg' = NONE
    /\ UNCHANGED overlay
    /\ UNCHANGED sessionVars
    /\ UNCHANGED walkVars

exportPolygon ==
    /\ Quiet /\ mask # NULL
    /\ download' = TraceOf(overlay).file
    /\ alertMsg' = TraceOf(overlay).alert
    /\ UNCHANGED overlay
    /\ UNCHANGED sessionVars
    /\ UNCHANGED walkVars

--------------------------------------------------------------------------
(* The session specification                                               *)

\* values a raw score takes: below, at and above the threshold
RawValues == {-1, 0, 1}

\* the output tensors of mask size MW x MH in the layout of the given rank
DimsOf(MW, MH, rank) ==
    IF rank = 4 THEN <<1, 1, MH, MW>>
    ELSE IF rank = 3 THEN <<1, MH, MW>>
    ELSE IF rank = 2 THEN <<MH, MW>>
    ELSE <<MH * MW>>

\* what the inference engine answers in a session: a rejection, no masks
\* entry, a flat tensor, masks of 2 x 1 scores at or above the threshold,
\* and one mask in each of the other two layouts run() accepts
SessionResults ==
    {Rejected, NULL, Tensor(DimsOf(2, 1, 1), [i \in 0 .. 1 |-> 1])}
    \cup {Tensor(DimsOf(2, 1, 4), d) : d \in [0 .. 1 -> {0, 1}]}
    \cup {Tensor(DimsOf(1, 2, rank), [i \in 0 .. 1 |-> 1 - 2 * i]) : rank \in {2, 3}}

\* where a user clicks: the corners of the canvas
Clicks == {0, 1}

Next ==
    \/ sessionCreated
    \/ sessionFailed
    \/ \E im \in ImageSizes : onPick(im)
    \/ \E im \in ImageSizes : imOnload(im)
    \/ \E cx \in Clicks, cy \in Clicks, label \in {0, 1} :
          img # NULL /\ onCanvasClick(cx * img.width, cy * img.height, label)
    \/ undoPoint
    \/ clearPoints
    \/ run
    \/ \E i \in 1 .. MaxInFlight, r \in SessionResults : settle(i, r)
    \/ runContinue
    \/ exportPNG
    \/ exportPolygon

Spec == Init /\ [][Next]_vars

--------------------------------------------------------------------------
(* exportPolygon followed one loop iteration at a time, on the masks a run *)
(* can leave on the overlay                                                *)

MaskOf(W, H, on) ==
    [width |-> W, height |-> H,
     data |-> [i \in Pixels(W, H) |-> IF i \in on THEN MaskAlpha ELSE 0]]

\* every mask of at most MaxCells pixels
SmallMasks ==
    UNION {UNION {{MaskOf(W, H, on) : on \in SUBSET Pixels(W, H)} :
                    H \in 1 .. (MaxCells \div W)} :
           W \in 1 .. MaxCells}

\* the solid rectangle [x0, x1] x [y0, y1] in a W x H grid
RectMask(W, H, x0, x1, y0, y1) ==
    MaskOf(W, H, {i \in Pixels(W, H) :
                    /\ x0 <= i % W /\ i % W <= x1
                    /\ y0 <= i \div W /\ i \div W <= y1})

\* every solid rectangle strictly inside a grid of sides in 3 .. MaxRectGrid
RectMasks ==
    UNION {{RectMask(W, H, x0, x1, y0, y1) :
              x0 \in 1 .. W - 2, x1 \in 1 .. W - 2, y0 \in 1 .. H - 2, y1 \in 1 .. H - 2} :
           W \in 3 .. MaxRectGrid, H \in 3 .. MaxRectGrid}

TraceMasks == SmallMasks \cup {m \in RectMasks : \E i \in DOMAIN m.data : m.data[i] > 0}

\* a session whose last run left mask m, with no prompt points
TraceInit ==
    \E m \in TraceMasks :
        /\ session = TRUE /\ pending = {}
        /\ img = [width |-> m.width, height |-> m.height]
        /\ points = <<>> /\ mask = m /\ busy = FALSE /\ error = NONE
        /\ inflight = <<>> /\ out = NULL
        /\ overlay = Draw(img, m, points)
        /\ download = NULL /\ alertMsg = NONE
        /\ Idle

\* lines 295-313: the seed scan, the alert, the start of the walk
exportPolygonScan ==
    /\ pc = "idle" /\ mask # NULL
    /\ LET seed == SeedOf(overlay)
           w == WalkStart(seed)
       IN  IF seed[1] = -1
           THEN /\ alertMsg' = NoMask
                /\ pc' = "alerted"
                /\ UNCHANGED <<sx, sy, x, y, dir, steps, poly, visited>>
           ELSE /\ sx' = seed[1] /\ sy' = seed[2]
                /\ x' = w.x /\ y' = w.y /\ dir' = w.dir /\ steps' = w.steps
                /\ poly' = w.poly /\ visited' = w.visited
                /\ pc' = IF LoopOver(overlay, w) THEN "export" ELSE "walk"
                /\ UNCHANGED alertMsg
    /\ UNCHANGED <<overlay, download>>
    /\ UNCHANGED sessionVars

\* lines 314-328: one iteration of the for loop
exportPolygonLoop ==
    /\ pc = "walk"
    /\ LET w == LoopBody(overlay, <<sx, sy>>,
                         [x |-> x, y |-> y, dir |-> dir, poly |-> poly,
                          visited |-> visited, steps |-> steps, brk |-> FALSE])
       IN  /\ x' = w.x /\ y' = w.y /\ dir' = w.dir /\ steps' = w.steps
           /\ poly' = w.poly /\ visited' = w.visited
           /\ pc' = IF LoopOver(overlay, w) THEN "export" ELSE "walk"
    /\ UNCHANGED <<sx, sy, overlay, download, alertMsg>>
    /\ UNCHANGED sessionVars

\* lines 330-347: the GeoJSON and its download
exportPolygonWrite ==
    /\ pc = "export"
    /\ download' = GeoJSON(poly)
    /\ pc' = "done"
    /\ UNCHANGED <<sx, sy, x, y, dir, steps, poly, visited, overlay, alertMsg>>
    /\ UNCHANGED sessionVars

TraceNext == exportPolygonScan \/ exportPolygonLoop \/ exportPolygonWrite

TraceSpec == TraceInit /\ [][TraceNext]_vars


--------------------------------------------------------------------------
(* The occupancy grid: what the claims call occupied                       *)

GridW == overlay.width
GridH == overlay.height

\* the occupied pixels of the grid exportPolygon reads, as <<x, y>>
OnCells ==
    {c \in (0 .. GridW - 1) \X (0 .. GridH - 1) :
       overlay.data[c[2] * GridW + c[1]] > 0}

Walking == pc \in {"walk", "export", "done"}

PolyCells == {poly[k] : k \in 1 .. Len(poly)}

\* the occupied cells 4-connected to a cell of S
RECURSIVE Region(_)
Region(S) ==
    LET T == S \cup {c \in OnCells :
                       \E d \in S : \/ (c[1] = d[1] /\ (c[2] - d[2]) \in {-1, 1})
                                    \/ (c[2] = d[2] /\ (c[1] - d[1]) \in {-1, 1})}
    IN  IF T = S THEN S ELSE Region(T)

\* the first occupied cell in row-major order
FirstCell == CHOOSE c \in OnCells :
                \A d \in OnCells : c[2] * GridW + c[1] <= d[2] * GridW + d[1]

\* C1: every point of the polygon of exportPolygon lies inside the grid,
\* 0 <= x < W and 0 <= y < H, and a written polygon has at least one point.
C1_PolygonInGrid ==
    /\ \A k \in 1 .. Len(poly) :
          poly[k][1] \in 0 .. GridW - 1 /\ poly[k][2] \in 0 .. GridH - 1
    /\ (pc = "done" => Len(poly) >= 1)

\* C2: the walk ends after at most 4 * W * H iterations: every iteration
\* adds one point, the loop still runs only while fewer than 4 * W * H were
\* run, and no more are ever run; on a grid with exactly one occupied pixel
\* the written polygon contains that pixel.
C2_WalkWithinBudget ==
    /\ Len(poly) <= 4 * GridW * GridH
    /\ (pc = "walk" => Len(poly) < 4 * GridW * GridH)
    /\ (Walking => Len(poly) = steps \/ (pc # "walk" /\ Len(poly) = steps + 1))
    /\ ((pc = "done" /\ Cardinality(OnCells) = 1) =>
            /\ OnCells \subseteq PolyCells
            /\ download = GeoJSON(poly))

C2_Witness ==
    /\ pc = "done" /\ Cardinality(OnCells) = 1
    /\ Len(poly) = 4 * GridW * GridH /\ OnCells \subseteq PolyCells

\* C3: on a grid with no occupied pixel exportPolygon alerts "No mask to
\* export", builds no polygon and downloads no file.
C3_EmptyGridAlerts ==
    (OnCells = {} /\ pc # "idle") =>
        /\ pc = "alerted" /\ alertMsg = "No mask to export"
        /\ poly = <<>> /\ download = NULL

C3_Witness == OnCells = {} /\ pc = "alerted" /\ GridW * GridH > 1

\* C4: the walk starts at the first occupied pixel of the row-major scan and,
\* on a grid with several 4-connected regions, every point of the polygon is
\* an occupied pixel of the region of that seed.
C4_SeedRegionOnly ==
    Walking => /\ <<sx, sy>> = FirstCell
               /\ (Region({FirstCell}) # OnCells =>
                      PolyCells \subseteq Region({<<sx, sy>>}))

\* the occupied cells are a solid rectangle of sides >= n strictly inside
MinOf(S) == CHOOSE a \in S : \A b \in S : a <= b
MaxOf(S) == CHOOSE a \in S : \A b \in S : a >= b
Xs(S) == {c[1] : c \in S}
Ys(S) == {c[2] : c \in S}
SolidRectInside(n) ==
    /\ OnCells # {}
    /\ OnCells = (MinOf(Xs(OnCells)) .. MaxOf(Xs(OnCells)))
                    \X (MinOf(Ys(OnCells)) .. MaxOf(Ys(OnCells)))
    /\ MaxOf(Xs(OnCells)) - MinOf(Xs(OnCells)) + 1 >= n
    /\ MaxOf(Ys(OnCells)) - MinOf(Ys(OnCells)) + 1 >= n
    /\ MinOf(Xs(OnCells)) >= 1 /\ MaxOf(Xs(OnCells)) <= GridW - 2
    /\ MinOf(Ys(OnCells)) >= 1 /\ MaxOf(Ys(OnCells)) <= GridH - 2

SameBox(S, T) ==
    /\ MinOf(Xs(S)) = MinOf(Xs(T)) /\ MaxOf(Xs(S)) = MaxOf(Xs(T))
    /\ MinOf(Ys(S)) = MinOf(Ys(T)) /\ MaxOf(Ys(S)) = MaxOf(Ys(T))

\* C5: for a solid rectangle of sides >= 3 strictly inside the grid, the
\* written polygon has the bounding box of the rectangle and its first point
\* equals its last point.
C5_RectangleClosed ==
    (pc = "done" /\ SolidRectInside(3)) =>
        /\ SameBox(PolyCells, OnCells)
        /\ download.coordinates[1] = download.coordinates[Len(download.coordinates)]

\* C6: for the 4 x 4 grid whose centre 2 x 2 block is the occupied area, the
\* written polygon has at most 8 points, is closed, and its points are
\* exactly those 4 pixels.
CentreBlock ==
    /\ GridW = 4 /\ GridH = 4
    /\ OnCells = {<<1, 1>>, <<2, 1>>, <<1, 2>>, <<2, 2>>}

C6_CentreBlockEightPoints ==
    (pc = "done" /\ CentreBlock) =>
        /\ Len(download.coordinates) <= 8
        /\ download.coordinates[1] = download.coordinates[Len(download.coordinates)]
        /\ PolyCells = OnCells

BackAtSeed == x = sx /\ y = sy /\ Len(poly) >= 11

\* C11: the walk stops at the first iteration after which the position is the
\* seed and at least 11 points are accumulated, or else when 4 * W * H
\* iterations have run, and never earlier; however it stopped, the polygon
\* accumulated is then downloaded as it is, with no alert and no error.
C11_StopsAtSeedOrBudget ==
    /\ [][/\ pc = "idle" => pc' \in {"walk", "alerted"}
          /\ pc = "walk" =>
               /\ Len(poly') = Len(poly) + 1
               /\ pc' = "export" <=> (BackAtSeed' \/ Len(poly') = 4 * GridW * GridH)
               /\ pc' # "export" => pc' = "walk"
          /\ pc = "export" =>
               /\ pc' = "done" /\ poly' = poly
               /\ download' = GeoJSON(poly) /\ alertMsg' = NONE /\ error' = NONE]_vars
    /\ [](pc = "export" => ENABLED exportPolygonWrite)

\* the budget ran out away from the seed, and the partial polygon was written
C11_Witness ==
    /\ pc = "done" /\ Len(poly) = 4 * GridW * GridH /\ ~BackAtSeed
    /\ <<x, y>> # <<sx, sy>>
    /\ download = GeoJSON(poly) /\ alertMsg = NONE /\ error = NONE

--------------------------------------------------------------------------
(* run() followed from its await on, for images and masks of many sizes    *)

\* the scores of a mask of MW x MH: a checkerboard of scores above and at the
\* threshold, its inverse with scores below the threshold, and all above
ResampleData(MW, MH) ==
    {[i \in Pixels(MW, MH) |-> IF ((i % MW) + (i \div MW)) % 2 = 0 THEN 1 ELSE 0],
     [i \in Pixels(MW, MH) |-> IF ((i % MW) + (i \div MW)) % 2 = 1 THEN 1 ELSE -1],
     [i \in Pixels(MW, MH) |-> 1]}

ResampleResults ==
    UNION {{Tensor(DimsOf(MW, MH, 4), d) : d \in ResampleData(MW, MH)} :
           MW \in 1 .. MaxResample, MH \in 1 .. MaxResampleH}

\* a session in which run() awaits the engine, for an image of any size
ResampleInit ==
    \E W \in 1 .. MaxResample, H \in 1 .. MaxResampleH :
        /\ session = TRUE /\ pending = {}
        /\ img = [width |-> W, height |-> H]
        /\ points = <<>> /\ mask = NULL /\ busy = TRUE /\ error = NONE
        /\ inflight = <<[W |-> W, H |-> H]>> /\ out = NULL
        /\ overlay = Draw(img, NULL, points)
        /\ download = NULL /\ alertMsg = NONE
        /\ Idle

ResampleNext ==
    \/ \E r \in ResampleResults : settle(1, r)
    \/ runContinue

ResampleSpec == ResampleInit /\ [][ResampleNext]_vars

--------------------------------------------------------------------------
(* Claims about the session and the upscale                                *)

\* the pixel (px, py) is occupied in the current mask
MaskOn(px, py) ==
    /\ px < mask.width /\ py < mask.height
    /\ mask.data[py * mask.width + px] > 0

IsFile(f, name) == f # NULL /\ f.name = name

\* C7: the PNG handed to the browser has the image's dimensions and each of
\* its pixels is opaque (alpha 255) if that pixel is occupied in the current
\* mask and transparent (alpha 0) otherwise.
C7_PngIsTheMask ==
    IsFile(download, "mask.png") =>
        /\ download.width = img.width /\ download.height = img.height
        /\ \A px \in 0 .. img.width - 1, py \in 0 .. img.height - 1 :
              download.data[py * img.width + px] = IF MaskOn(px, py) THEN 255 ELSE 0

\* a step in which the boundary trace ran: exportPolygon downloaded or alerted
TraceRan == IsFile(download', "mask.geojson") \/ alertMsg' # NONE
\* a step in which the upscale ran: a new mask was set
ResampleRan == mask' # mask /\ mask' # NULL

\* C8 as claimed: neither the boundary trace nor the upscale runs while a
\* session.run call is in flight.
C8_NothingDuringInference ==
    [][(TraceRan => inflight = <<>>) /\ (ResampleRan => inflight' = <<>>)]_vars

\* C8 as amended: the upscale runs only in the continuation of a settled
\* session.run call and with no call in flight (the trace is not so guarded).
C8_NoResampleDuringInference ==
    [][ResampleRan => (out # NULL /\ inflight = <<>> /\ inflight' = <<>>)]_vars

\* the trace has just run on an earlier mask while a call is in flight
C8_Witness ==
    /\ mask # NULL /\ inflight # <<>> /\ busy
    /\ IsFile(download, "mask.geojson")

\* C9: the upscale gives targetWidth * targetHeight entries, and the entry at
\* (x, y) is occupied iff the score at (floor(x * srcW / targetWidth),
\* floor(y * srcH / targetHeight)) is above 0, an index inside the mask.
C9_NearestNeighbour ==
    [][(out # NULL /\ RunError(out.res) = NONE) =>
        LET srcH == MaskShape(out.res)[1]
            srcW == MaskShape(out.res)[2]
        IN  /\ mask'.width = out.W /\ mask'.height = out.H
            /\ DOMAIN mask'.data = 0 .. (out.W * out.H - 1)
            /\ \A px \in 0 .. out.W - 1, py \in 0 .. out.H - 1 :
                  LET srcX == (px * srcW) \div out.W
                      srcY == (py * srcH) \div out.H
                  IN  /\ srcX \in 0 .. srcW - 1 /\ srcY \in 0 .. srcH - 1
                      /\ (mask'.data[py * out.W + px] > 0)
                            <=> (out.res.data[srcY * srcW + srcX] > 0)]_vars

====
